---- MODULE Spec2Model ----
(***************************************************************************)
(* Command-log buffer of arcus-memcached: engines/default/cmdlogbuf.c.     *)
(*                                                                         *)
(* The state is struct log_global: the byte ring and its flush-request     *)
(* queue (log_BUFFER), the two file slots (log_FILE), the three LSNs and   *)
(* log_flush_lock.  Every section the code runs under log_write_lock is    *)
(* one atomic step; a thread holding log_flush_lock keeps it over several  *)
(* steps, exactly where the code leaves log_write_lock in between.         *)
(*                                                                         *)
(* The sizes are scaled down, keeping the relations of the source:         *)
(* fqsz = size / CMDLOG_RECORD_MIN_SIZE, CMDLOG_FLUSH_AUTO_SIZE < size,    *)
(* records at least CMDLOG_RECORD_MIN_SIZE and shorter than size.          *)
(* A byte of a record is modelled by its identity: the number of bytes     *)
(* placed in the ring before it.  A descriptor is the identity of one      *)
(* open(): descriptor numbers are not reused.                              *)
(***************************************************************************)
EXTENDS Integers, Sequences, FiniteSets, TLC

\* ---- program constants (scaled) ----
CMDLOG_BUFFER_SIZE == 8
CMDLOG_FLUSH_AUTO_SIZE == 4
CMDLOG_RECORD_MIN_SIZE == 2

\* ---- bounds of the model ----
\* Each specification below fixes, in lim, the threads that run, the inputs
\* they pass and the number of calls of each operation.
\* Spec: every operation
MaxRecords == 2
MaxPrepare == 2
MaxSync == 1
MaxBufFlush == 1
\* SpecRot: rotations, no log_file_sync
MaxRotRecords == 2
MaxRotPrepare == 3
\* SpecRing: one file, two writers
MaxRingRecords == 4
\* SpecApply: complete records in the file before its tail
MaxApplyRecords == 2
\* SpecSync: two threads in log_file_sync
MaxSyncCalls == 2
MaxSyncPrepare == 2
\* SpecLive: one writer and the flush thread
MaxLiveRecords == 3
\* ... and of the one with flush_thread_start and flush_thread_stop
MaxStopRecords == 2
MaxStop == 2
\* ... and of the one with repeated calls of do_log_buff_flush(true)
MaxAllRecords == 3
\* ... and of the one that fills the flush request queue
MaxQueueRecords == 3
MaxQueuePrepare == 2

VARIABLES
    logbuff,        \* log_gl.log_buffer
    log_file,       \* log_gl.log_file
    nxt_write_lsn,  \* log_gl.nxt_write_lsn
    nxt_flush_lsn,  \* log_gl.nxt_flush_lsn
    nxt_fsync_lsn,  \* log_gl.nxt_fsync_lsn
    log_flush_lock, \* owner of log_gl.log_flush_lock, or NoThread
    fl,             \* locals of the running do_log_buff_flush call
    wr,             \* per writer: position in do_log_buff_write and its locals
    bf,             \* the thread in log_buffer_flush
    sy,             \* per syncer: position in log_file_sync and its locals
    disk,           \* per descriptor: open?, the bytes written to it, close() calls
    recs,           \* history: the records placed in the ring, in order (aborted:
                    \* written for a dual write that was given up afterwards)
    consumed,       \* history: identities of the bytes whose slot was consumed
    calls,          \* history: number of calls made, per operation
    lim,            \* the bounds of the specification (never changes)
    ap,             \* cmdlog_file_apply: the file of curr.fd, its file position,
                    \* curr.size, the locals of the call and the records redone
    log_flusher,    \* log_gl.log_flusher: running, reqstop, sleep, a signal sent to
                    \* cond; the place of the flush thread in log_flush_thread_main
                    \* and of the callers of flush_thread_start and _stop
    lk,             \* the mutexes: owner of each, and each thread's place between
                    \* its pthread_mutex_lock and pthread_mutex_unlock calls
    failed          \* "none", or the assertion that aborted the process

vars == <<logbuff, log_file, nxt_write_lsn, nxt_flush_lsn, nxt_fsync_lsn,
          log_flush_lock, fl, wr, bf, sy, disk, recs, consumed, calls, lim, lk,
          ap, log_flusher, failed>>

NoThread == "none"
\* fd == -1: no descriptor
NoFd == -1

\* ---- LogSN ----
LogSN(f, r) == [filenum |-> f, roffset |-> r]

LOGSN_IS_LE(a, b) ==
    \/ a.filenum < b.filenum
    \/ a.filenum = b.filenum /\ a.roffset <= b.roffset

LOGSN_IS_GT(a, b) ==
    \/ a.filenum > b.filenum
    \/ a.filenum = b.filenum /\ a.roffset > b.roffset

\* ---- the ring and the flush request queue ----
EmptyFreq == [nflush |-> 0, dual_write |-> FALSE]

\* (a variant with one slot per CMDLOG_FLUSH_AUTO_SIZE bytes)
FqueSize_by_flush_auto_size(size) == size \div CMDLOG_FLUSH_AUTO_SIZE

\* fqsz = size / CMDLOG_RECORD_MIN_SIZE
FqueSize(size) == size \div CMDLOG_RECORD_MIN_SIZE

\* if ((++index) == logbuff->fqsz) index = 0;
FqueNext(lb, index) == IF index + 1 = lb.fqsz THEN 0 ELSE index + 1

\* (a variant that leaves the tail slot open)
CloseTailSlot_left_open(lb) == lb

\* if (logbuff->fque[logbuff->fend].nflush > 0) advance fend
CloseTailSlot(lb) ==
    IF lb.fque[lb.fend].nflush > 0
    THEN [lb EXCEPT !.fend = FqueNext(lb, lb.fend)]
    ELSE lb

\* One pass of the loop that finds the position to write at.
\* res: "found" (break), "lack" (force a flush), "assert" (an assert fails).
FindPosition(lb, total_length) ==
    IF lb.head <= lb.tail
    THEN IF lb.last # -1
         THEN [lb |-> lb, res |-> "assert"]
         ELSE IF total_length < lb.size - lb.tail
              THEN [lb |-> lb, res |-> "found"]
              ELSE IF lb.head > 0
                   THEN LET w == CloseTailSlot([lb EXCEPT !.last = lb.tail, !.tail = 0])
                        IN  IF total_length < w.head
                            THEN [lb |-> w, res |-> "found"]
                            ELSE [lb |-> w, res |-> "lack"]
                   ELSE [lb |-> lb, res |-> "lack"]
    ELSE IF lb.last = -1
         THEN [lb |-> lb, res |-> "assert"]
         ELSE IF total_length < lb.head - lb.tail
              THEN [lb |-> lb, res |-> "found"]
              ELSE [lb |-> lb, res |-> "lack"]

\* lrec_write_to_buffer(logrec, &data[tail]); tail += total_length;
PlaceRecord(lb, total_length, first) ==
    [lb EXCEPT
       !.data = [i \in DOMAIN lb.data |->
                   IF i >= lb.tail /\ i < lb.tail + total_length
                   THEN first + (i - lb.tail)
                   ELSE lb.data[i]],
       !.tail = lb.tail + total_length]

\* (a variant that makes one pass of the loop only)
AppendFlushRequest_one_pass(lb, total_length, dual_write) ==
    LET room  == CMDLOG_FLUSH_AUTO_SIZE - lb.fque[lb.fend].nflush
        spare == IF room >= total_length THEN total_length ELSE room
        q     == [lb.fque EXCEPT ![lb.fend] =
                     [nflush |-> @.nflush + spare, dual_write |-> dual_write]]
    IN  [lb EXCEPT !.fque = q,
                   !.fend = IF q[lb.fend].nflush = CMDLOG_FLUSH_AUTO_SIZE
                            THEN FqueNext(lb, lb.fend) ELSE lb.fend]

\* while (total_length > 0) { ... } of the flush request update
RECURSIVE AppendFlushRequest(_, _, _)
AppendFlushRequest(lb, total_length, dual_write) ==
    IF total_length = 0
    THEN lb
    ELSE LET room  == CMDLOG_FLUSH_AUTO_SIZE - lb.fque[lb.fend].nflush
             spare == IF room >= total_length THEN total_length ELSE room
             q     == [lb.fque EXCEPT ![lb.fend] =
                          [nflush |-> @.nflush + spare, dual_write |-> dual_write]]
             e     == IF q[lb.fend].nflush = CMDLOG_FLUSH_AUTO_SIZE
                      THEN FqueNext(lb, lb.fend)
                      ELSE lb.fend
         IN  AppendFlushRequest([lb EXCEPT !.fque = q, !.fend = e],
                                total_length - spare, dual_write)

\* (a variant that appends to the tail slot whatever its flag)
UpdateFlushRequest_same_slot(lb, total_length, dual_write) ==
    AppendFlushRequest(lb, total_length, dual_write)

\* update log flush request
UpdateFlushRequest(lb, total_length, dual_write) ==
    LET c == IF /\ lb.fque[lb.fend].nflush > 0
                /\ lb.fque[lb.fend].dual_write # dual_write
             THEN [lb EXCEPT !.fend = FqueNext(lb, lb.fend)]
             ELSE lb
    IN  AppendFlushRequest(c, total_length, dual_write)

\* (a variant that takes the tail slot whatever flush_all is)
FlushSelect_takes_tail_slot(lb, flush_all) ==
    LET cleanup == lb.dw_end # -1
        at_end  == lb.fbgn = lb.dw_end
        lb1     == IF at_end THEN [lb EXCEPT !.dw_end = -1] ELSE lb
        queued  == lb1.fbgn # lb1.fend
        tail_ok == ~queued /\ lb1.fque[lb1.fend].nflush > 0
        req     == IF queued THEN lb1.fque[lb1.fbgn]
                   ELSE IF tail_ok THEN lb1.fque[lb1.fend]
                   ELSE EmptyFreq
        lb2     == IF tail_ok THEN [lb1 EXCEPT !.fend = FqueNext(lb1, lb1.fend)] ELSE lb1
        lb3     == IF req.nflush > 0 /\ lb2.head = lb2.last
                   THEN [lb2 EXCEPT !.last = -1, !.head = 0]
                   ELSE lb2
    IN  [lb |-> lb3,
         nflush |-> req.nflush,
         dual_write_flag |-> req.dual_write,
         next_fhlsn_flag |-> at_end,
         cleanup_process |-> cleanup,
         assert_ok |-> (queued => req.nflush > 0)]

\* The first section of do_log_buff_flush under log_write_lock: computes the
\* flush size and returns the locals of the call with the changed buffer.
FlushSelect(lb, flush_all) ==
    LET cleanup == lb.dw_end # -1
        at_end  == lb.fbgn = lb.dw_end
        lb1     == IF at_end THEN [lb EXCEPT !.dw_end = -1] ELSE lb
        queued  == lb1.fbgn # lb1.fend
        tail_ok == ~queued /\ flush_all /\ lb1.fque[lb1.fend].nflush > 0
        req     == IF queued THEN lb1.fque[lb1.fbgn]
                   ELSE IF tail_ok THEN lb1.fque[lb1.fend]
                   ELSE EmptyFreq
        lb2     == IF tail_ok THEN [lb1 EXCEPT !.fend = FqueNext(lb1, lb1.fend)] ELSE lb1
        lb3     == IF req.nflush > 0 /\ lb2.head = lb2.last
                   THEN [lb2 EXCEPT !.last = -1, !.head = 0]
                   ELSE lb2
    IN  [lb |-> lb3,
         nflush |-> req.nflush,
         dual_write_flag |-> req.dual_write,
         next_fhlsn_flag |-> at_end,
         cleanup_process |-> cleanup,
         assert_ok |-> (queued => req.nflush > 0)]

\* (a variant that keeps roffset)
FlushLsnNextFile_keeps_roffset(lsn) == LogSN(lsn.filenum + 1, lsn.roffset)

\* nxt_flush_lsn.filenum += 1; nxt_flush_lsn.roffset = 0;
FlushLsnNextFile(lsn) == LogSN(lsn.filenum + 1, 0)

\* &logbuff->data[logbuff->head], nflush bytes; a read past the end of data
\* yields a byte that is no byte of a record (-2).
FlushBytes(lb, nflush) ==
    [i \in 1..nflush |->
        IF lb.head + i - 1 \in DOMAIN lb.data THEN lb.data[lb.head + i - 1] ELSE -2]

\* disk_byte_write(fd, ...) appends the bytes to an open descriptor
DiskWrite(dk, fd, bytes) == [dk EXCEPT ![fd].bytes = @ \o bytes]

\* disk_close(fd): counted, so that a second close of a descriptor shows
DiskClose(dk, fd) == [dk EXCEPT ![fd].open = FALSE, ![fd].nclose = @ + 1]

\* do_log_file_write: ok is FALSE when one of its assertions fails
\* (curr.fd == -1, or a write to a closed descriptor returning an error).
do_log_file_write(lf, dk, bytes, dual_write) ==
    IF lf.curr.fd = NoFd \/ ~dk[lf.curr.fd].open
    THEN [ok |-> FALSE, log_file |-> lf, disk |-> dk]
    ELSE LET lf1 == [lf EXCEPT !.curr.size = @ + Len(bytes)]
             dk1 == DiskWrite(dk, lf.curr.fd, bytes)
         IN  IF dual_write /\ lf.next.fd # NoFd
             THEN IF ~dk1[lf.next.fd].open
                  THEN [ok |-> FALSE, log_file |-> lf1, disk |-> dk1]
                  ELSE [ok |-> TRUE,
                        log_file |-> [lf1 EXCEPT !.next.size = @ + Len(bytes)],
                        disk |-> DiskWrite(dk1, lf.next.fd, bytes)]
             ELSE [ok |-> TRUE, log_file |-> lf1, disk |-> dk1]

\* (a variant without the cleanup branch)
FlushFileWrite_no_cleanup(lf, dk, lb, f) ==
    do_log_file_write(lf, dk, FlushBytes(lb, f.nflush), f.dual_write_flag)

\* The file write of do_log_buff_flush (nflush > 0)
FlushFileWrite(lf, dk, lb, f) ==
    IF f.cleanup_process
    THEN IF f.dual_write_flag
         THEN do_log_file_write(lf, dk, FlushBytes(lb, f.nflush), FALSE)
         ELSE [ok |-> TRUE, log_file |-> lf, disk |-> dk]
    ELSE do_log_file_write(lf, dk, FlushBytes(lb, f.nflush), f.dual_write_flag)

\* (a variant that only advances head)
FlushConsume_no_reset(lb, nflush) ==
    [lb EXCEPT !.head = lb.head + nflush,
               !.fque[lb.fbgn] = EmptyFreq,
               !.fbgn = FqueNext(lb, lb.fbgn)]

\* (a variant that leaves last where it was when head reaches it)
FlushConsume_keeps_last(lb, nflush) ==
    LET h == lb.head + nflush
    IN  [lb EXCEPT !.head = IF h = lb.last THEN 0 ELSE h,
                   !.fque[lb.fbgn] = EmptyFreq,
                   !.fbgn = FqueNext(lb, lb.fbgn)]

\* The last section of do_log_buff_flush under log_write_lock
FlushConsume(lb, nflush) ==
    LET h   == lb.head + nflush
        lb1 == IF h = lb.last
               THEN [lb EXCEPT !.last = -1, !.head = 0]
               ELSE [lb EXCEPT !.head = h]
    IN  [lb1 EXCEPT !.fque[lb.fbgn] = EmptyFreq,
                    !.fbgn = FqueNext(lb, lb.fbgn)]

\* ---- cmdlog_file_apply ----
\* sizeof(LogHdr) and MAX_LOG_RECORD_SIZE, scaled; a header is its
\* body_length followed by the other header bytes (0)
LogHdrSize == 2
MAX_LOG_RECORD_SIZE == 5

\* the bytes of a record with body_length b; id tells the records apart
LogRecBytes(id, b) == <<b, 0>> \o [j \in 1..b |-> 10 * id + j]

\* the concatenation of the records with the body lengths bodies, from id on
RECURSIVE LogFileBytes(_, _)
LogFileBytes(bodies, id) ==
    IF bodies = << >> THEN << >>
    ELSE LogRecBytes(id, Head(bodies)) \o LogFileBytes(Tail(bodies), id + 1)

\* the body lengths of the files: the last one is above the maximum
BodyLengths == {1, MAX_LOG_RECORD_SIZE - LogHdrSize, MAX_LOG_RECORD_SIZE - LogHdrSize + 1}

\* what a crash can leave after the last complete record: nothing, fewer
\* bytes than a header, or a header followed by fewer than body_length bytes
TornTails ==
    {<< >>} \cup {<<b>> : b \in BodyLengths}
    \cup UNION {{<<b, 0>> \o [j \in 1..k |-> 90 + j] : k \in 0..(b - 1)} : b \in BodyLengths}

SeqsUpTo(S, n) == UNION {[1..k -> S] : k \in 0..n}

NoApply ==
    [pc |-> "none", file |-> << >>, bodies |-> << >>, tail |-> << >>, pos |-> 0,
     size |-> 0, open |-> FALSE, seek_offset |-> 0, ret |-> 0, redone |-> << >>,
     big_header |-> FALSE, enomem |-> FALSE, nclose |-> 0, fsync_closed |-> FALSE]

\* curr.fd is open on the file at position 0; bodies and tail are kept to
\* state what the file was made of
ApplyStart(bodies, tail) ==
    [NoApply EXCEPT !.pc = "start", !.file = LogFileBytes(bodies, 1) \o tail,
                    !.bodies = bodies, !.tail = tail, !.open = TRUE]

\* read(fd, buf, n): the bytes from the file position, at most n
ReadBytes(a, n) ==
    LET m == IF Len(a.file) - a.pos < n THEN Len(a.file) - a.pos ELSE n
    IN  SubSeq(a.file, a.pos + 1, a.pos + m)

\* (a variant that leaves the file position after the header)
SeekBack_stays(a, nread) == [a EXCEPT !.pc = "out"]

\* seek_offset = lseek(fd, -nread, SEEK_CUR); break;
SeekBack(a, nread) ==
    [a EXCEPT !.pos = @ - nread, !.seek_offset = a.pos - nread, !.pc = "out"]

\* One pass of the while loop of cmdlog_file_apply; err: what
\* lrec_redo_from_record returns.  pc "out": the loop is left.
ApplyRecord(a, err) ==
    IF ~(a.seek_offset < a.size) THEN [a EXCEPT !.pc = "out"]
    ELSE IF a.size - a.seek_offset < LogHdrSize THEN [a EXCEPT !.pc = "out"]
    ELSE
      LET hdr   == ReadBytes(a, LogHdrSize)
          nread == Len(hdr)
          a1    == [a EXCEPT !.pos = @ + nread]
      IN  IF nread # LogHdrSize THEN [a1 EXCEPT !.ret = -1, !.pc = "out"]
          ELSE
            LET body_length == hdr[1]
                a2 == [a1 EXCEPT !.seek_offset = @ + nread,
                                 !.big_header = @ \/ (body_length >
                                                      MAX_LOG_RECORD_SIZE - LogHdrSize)]
            IN  IF a2.size - a2.seek_offset < body_length
                THEN SeekBack(a2, nread)
                ELSE IF body_length > 0
                THEN IF MAX_LOG_RECORD_SIZE - nread < body_length
                     THEN [a2 EXCEPT !.ret = -1, !.pc = "out"]
                     ELSE LET body == ReadBytes(a2, body_length)
                              a3   == [a2 EXCEPT !.pos = @ + Len(body)]
                          IN  IF Len(body) # body_length
                              THEN [a3 EXCEPT !.ret = -1, !.pc = "out"]
                              ELSE LET a4 == [a3 EXCEPT !.seek_offset = @ + Len(body),
                                                        !.redone = Append(@, hdr \o body)]
                                   IN  IF err = "ENGINE_ENOMEM"
                                       THEN [a4 EXCEPT !.ret = -1, !.pc = "out",
                                                       !.enomem = TRUE]
                                       ELSE a4
                ELSE a2

ApplyFrame ==
    UNCHANGED <<logbuff, log_file, nxt_write_lsn, nxt_flush_lsn, nxt_fsync_lsn,
                log_flush_lock, fl, wr, bf, sy, disk, recs, consumed, calls, lim, lk,
                log_flusher, failed>>

\* fstat; an empty file returns 0 at once
file_apply ==
    /\ ap.pc = "start"
    /\ ap' = IF Len(ap.file) = 0
             THEN [ap EXCEPT !.size = 0, !.ret = 0, !.pc = "done"]
             ELSE [ap EXCEPT !.size = Len(ap.file), !.pc = "loop"]
    /\ ApplyFrame

file_apply_record ==
    /\ ap.pc = "loop"
    /\ \E err \in {"ENGINE_SUCCESS", "ENGINE_FAILED", "ENGINE_ENOMEM"} :
           ap' = ApplyRecord(ap, err)
    /\ ApplyFrame

\* after the loop: close(curr.fd) on failure, else curr.size = seek_offset
file_apply_return ==
    /\ ap.pc = "out"
    /\ ap' = IF ap.ret < 0
             THEN [ap EXCEPT !.open = FALSE, !.nclose = @ + 1, !.pc = "done"]
             ELSE [ap EXCEPT !.size = ap.seek_offset, !.pc = "done"]
    /\ ApplyFrame

\* cmdlog_file_final, from cmdlog_buf_final, after cmdlog_file_apply returned:
\* curr.fd is not -1 (cmdlog_file_apply does not reset it), so disk_fsync and
\* disk_close are called on it; their results are not looked at.
\* nclose: close calls made on the descriptor; fsync_closed: disk_fsync was
\* called on it after it was closed.
file_final ==
    /\ ap.pc = "done"
    /\ ap' = [ap EXCEPT !.fsync_closed = ~ap.open, !.nclose = @ + 1,
                        !.open = FALSE, !.pc = "final"]
    /\ ApplyFrame

\* ---- the mutexes ----
\* The calls of pthread_mutex_lock and pthread_mutex_unlock of each function,
\* in program order: an edge [from, op, lock, to] is one call (or, with op
\* "skip", a branch that calls none).  Which branch is taken depends on the
\* data; here every branch may be taken.
Locks == {"log_write_lock", "log_flush_lock", "flush_lsn_lock", "fsync_lsn_lock",
          "flusher.lock"}

Edge(from, op, lock, to) == [from |-> from, op |-> op, lock |-> lock, to |-> to]

\* do_log_buff_flush, entered at "fl0" with log_flush_lock held; ret: the
\* place of its caller after the call
FlushLocks(ret) ==
    { Edge("fl0", "lock", "log_write_lock", "fl1"),
      Edge("fl1", "unlock", "log_write_lock", "fl2"),
      Edge("fl2", "lock", "flush_lsn_lock", "fl3"),      \* next_fhlsn_flag
      Edge("fl3", "unlock", "flush_lsn_lock", "fl4"),
      Edge("fl2", "skip", "", "fl4"),
      Edge("fl4", "skip", "", ret),                      \* nflush == 0
      Edge("fl4", "lock", "flush_lsn_lock", "fl5"),      \* nflush > 0
      Edge("fl5", "unlock", "flush_lsn_lock", "fl6"),
      Edge("fl6", "lock", "log_write_lock", "fl7"),
      Edge("fl7", "unlock", "log_write_lock", ret) }

\* (a variant that keeps log_write_lock while it forces the flush)
WriterLocks_keeps_write_lock ==
    { Edge("idle", "lock", "log_write_lock", "w1"),
      Edge("w1", "unlock", "log_write_lock", "w5"),
      Edge("w1", "skip", "", "w2"),
      Edge("w2", "lock", "log_flush_lock", "fl0"),
      Edge("w3", "unlock", "log_flush_lock", "w1"),
      Edge("w5", "skip", "", "idle"),
      Edge("w5", "lock", "flusher.lock", "w6"),
      Edge("w6", "unlock", "flusher.lock", "idle") }
    \cup FlushLocks("w3")

\* do_log_buff_write and do_log_flusher_wakeup
WriterLocks ==
    { Edge("idle", "lock", "log_write_lock", "w1"),
      Edge("w1", "unlock", "log_write_lock", "w5"),      \* space found, record placed
      Edge("w1", "unlock", "log_write_lock", "w2"),      \* lack of space
      Edge("w2", "lock", "log_flush_lock", "fl0"),
      Edge("w3", "unlock", "log_flush_lock", "w4"),
      Edge("w4", "lock", "log_write_lock", "w1"),
      Edge("w5", "skip", "", "idle"),
      Edge("w5", "lock", "flusher.lock", "w6"),          \* wake up the flush thread
      Edge("w6", "unlock", "flusher.lock", "idle") }
    \cup FlushLocks("w3")

\* log_flush_thread_main: pthread_cond_timedwait releases flusher.lock while
\* it waits and takes it again before it returns
FlusherLocks ==
    { Edge("idle", "lock", "log_flush_lock", "fl0"),
      Edge("t1", "unlock", "log_flush_lock", "t2"),
      Edge("t2", "skip", "", "idle"),                    \* nflush > 0
      Edge("t2", "lock", "flusher.lock", "t3"),          \* nflush == 0
      Edge("t3", "unlock", "flusher.lock", "t4"),
      Edge("t4", "lock", "flusher.lock", "t5"),
      Edge("t5", "unlock", "flusher.lock", "idle") }
    \cup FlushLocks("t1")

\* log_buffer_flush
BufferFlushLocks ==
    { Edge("idle", "lock", "log_flush_lock", "b1"),
      Edge("b1", "skip", "", "fl0"),
      Edge("b1", "skip", "", "b2"),
      Edge("b2", "unlock", "log_flush_lock", "idle") }
    \cup FlushLocks("b2")

\* log_file_sync with log_get_flush_lsn
FileSyncLocks ==
    { Edge("idle", "lock", "log_flush_lock", "s1"),
      Edge("s1", "lock", "flush_lsn_lock", "s2"),
      Edge("s2", "unlock", "flush_lsn_lock", "s3"),
      Edge("s3", "unlock", "log_flush_lock", "s4"),
      Edge("s4", "lock", "fsync_lsn_lock", "s5"),
      Edge("s5", "unlock", "fsync_lsn_lock", "s6"),
      Edge("s6", "lock", "log_flush_lock", "s7"),
      Edge("s7", "unlock", "log_flush_lock", "idle") }

\* cmdlog_complete_dual_write
CompleteLocks ==
    { Edge("idle", "lock", "log_flush_lock", "c1"),
      Edge("c1", "skip", "", "c3"),                      \* next.fd == -1
      Edge("c1", "lock", "log_write_lock", "c2"),
      Edge("c2", "unlock", "log_write_lock", "c3"),
      Edge("c3", "unlock", "log_flush_lock", "idle") }

\* cmdlog_file_prepare
PrepareLocks ==
    { Edge("idle", "lock", "log_flush_lock", "p1"),
      Edge("p1", "unlock", "log_flush_lock", "idle") }

\* cmdlog_file_getsize
GetsizeLocks ==
    { Edge("idle", "lock", "log_flush_lock", "g1"),
      Edge("g1", "lock", "log_write_lock", "g2"),
      Edge("g2", "unlock", "log_write_lock", "g3"),
      Edge("g3", "unlock", "log_flush_lock", "idle") }

\* the function each thread of the lock model runs
LockProgram(t) ==
    CASE t \in {"w1", "w2"} -> WriterLocks
      [] t = "flusher"      -> FlusherLocks
      [] t = "bf"           -> BufferFlushLocks
      [] t = "s1"           -> FileSyncLocks
      [] t = "cp"           -> CompleteLocks
      [] t = "pr"           -> PrepareLocks
      [] t = "gs"           -> GetsizeLocks

\* the calls thread t can make next
NextEdges(t) == {e \in LockProgram(t) : e.from = lk.pc[t]}

LockInit(threads) ==
    [owner |-> [l \in Locks |-> NoThread], pc |-> [t \in threads |-> "idle"]]

\* One call of thread t: pthread_mutex_lock returns when the mutex is free;
\* unlocking a mutex the thread does not own is an error.
LockStep(t) ==
    /\ failed = "none"
    /\ \E e \in NextEdges(t) :
          CASE e.op = "lock" ->
                  /\ lk.owner[e.lock] = NoThread
                  /\ lk' = [lk EXCEPT !.owner[e.lock] = t, !.pc[t] = e.to]
                  /\ failed' = failed
            [] e.op = "unlock" ->
                  IF lk.owner[e.lock] = t
                  THEN /\ lk' = [lk EXCEPT !.owner[e.lock] = NoThread, !.pc[t] = e.to]
                       /\ failed' = failed
                  ELSE /\ failed' = "unlock of a mutex not owned"
                       /\ lk' = lk
            [] OTHER ->
                  /\ lk' = [lk EXCEPT !.pc[t] = e.to]
                  /\ failed' = failed
    /\ UNCHANGED <<logbuff, log_file, nxt_write_lsn, nxt_flush_lsn, nxt_fsync_lsn,
                   log_flush_lock, fl, wr, bf, sy, disk, recs, consumed, calls, lim, ap,
                   log_flusher>>

\* ---- the flush thread: log_flush_thread_main, flush_thread_start, _stop ----

\* cmdlog_buf_init: no thread yet
FlusherInit ==
    [running |-> "RUNNING_UNSTARTED", reqstop |-> FALSE, sleep |-> FALSE,
     signalled |-> FALSE, pc |-> "none", start_pc |-> "idle", stop_pc |-> "idle",
     nstop |-> 0]

\* the flush thread in its loop, no stop requested
FlusherInLoop ==
    [FlusherInit EXCEPT !.running = "RUNNING_STARTED", !.pc = "flush",
                        !.start_pc = "done"]

\* After do_log_buff_flush(false) returned nflush: with nothing flushed the
\* thread goes to its 10 ms sleep, otherwise to the top of the loop.  Where
\* flush_thread_stop is never called reqstop stays false, and the test of it and
\* the sleep are not steps of their own: the thread is at its next flush call.
FlusherAfterFlush(f, nflush) ==
    IF "stop" \notin DOMAIN lim THEN f
    ELSE [f EXCEPT !.pc = IF nflush = 0 THEN "sleep" ELSE "top"]

\* cmdlog_buf_flush_thread_stop, in its loop: flusher->reqstop = true
RequestStop_not_set(f) == f

RequestStop(f) == [f EXCEPT !.reqstop = TRUE]

FlusherFrame ==
    UNCHANGED <<logbuff, log_file, nxt_write_lsn, nxt_flush_lsn, nxt_fsync_lsn,
                log_flush_lock, fl, wr, bf, sy, disk, recs, consumed, calls, lim, lk,
                ap, failed>>

\* cmdlog_buf_flush_thread_start, called once after cmdlog_buf_init:
\* running = RUNNING_UNSTARTED, pthread_create
flush_thread_start ==
    /\ failed = "none"
    /\ log_flusher.start_pc = "idle"
    /\ log_flusher' = [log_flusher EXCEPT !.running = "RUNNING_UNSTARTED",
                                          !.pc = "entry", !.start_pc = "wait"]
    /\ FlusherFrame

\* ... and it returns once the thread has left RUNNING_UNSTARTED
flush_thread_start_return ==
    /\ failed = "none"
    /\ log_flusher.start_pc = "wait"
    /\ log_flusher.running # "RUNNING_UNSTARTED"
    /\ log_flusher' = [log_flusher EXCEPT !.start_pc = "done"]
    /\ FlusherFrame

\* log_flush_thread_main, first statement
flush_thread_main ==
    /\ failed = "none"
    /\ log_flusher.pc = "entry"
    /\ log_flusher' = [log_flusher EXCEPT !.running = "RUNNING_STARTED", !.pc = "top"]
    /\ FlusherFrame

\* top of the loop: if (flusher->reqstop) break, and after the loop
\* running = RUNNING_STOPPED
flush_thread_reqstop ==
    /\ failed = "none"
    /\ log_flusher.pc = "top"
    /\ log_flusher' = IF log_flusher.reqstop
                      THEN [log_flusher EXCEPT !.running = "RUNNING_STOPPED",
                                               !.pc = "returned"]
                      ELSE [log_flusher EXCEPT !.pc = "flush"]
    /\ FlusherFrame

\* nothing to flush: under flusher->lock, sleep = true and the thread waits in
\* pthread_cond_timedwait, which releases the lock
flush_thread_sleep ==
    /\ failed = "none"
    /\ log_flusher.pc = "sleep"
    /\ log_flusher' = [log_flusher EXCEPT !.sleep = TRUE, !.signalled = FALSE,
                                          !.pc = "wait"]
    /\ FlusherFrame

\* pthread_cond_timedwait returns, on the signal or after 10 ms (so the step
\* is enabled with or without a signal); sleep = false, unlock
flush_thread_wakes ==
    /\ failed = "none"
    /\ log_flusher.pc = "wait"
    /\ log_flusher' = [log_flusher EXCEPT !.sleep = FALSE, !.pc = "top"]
    /\ FlusherFrame

\* cmdlog_buf_flush_thread_stop: returns at once if the thread was not started
flush_thread_stop ==
    /\ failed = "none"
    /\ log_flusher.stop_pc = "idle"
    /\ log_flusher.nstop < lim.stop
    /\ log_flusher' = [log_flusher EXCEPT
                           !.nstop = @ + 1,
                           !.stop_pc = IF log_flusher.running = "RUNNING_UNSTARTED"
                                       THEN "idle" ELSE "loop"]
    /\ FlusherFrame

\* while (running == RUNNING_STARTED) { reqstop = true; ...; after the loop the
\* call returns
flush_thread_stop_loop ==
    /\ failed = "none"
    /\ log_flusher.stop_pc = "loop"
    /\ log_flusher' = IF log_flusher.running = "RUNNING_STARTED"
                      THEN [RequestStop(log_flusher) EXCEPT !.stop_pc = "wakeup"]
                      ELSE [log_flusher EXCEPT !.stop_pc = "idle"]
    /\ FlusherFrame

\* ... do_log_flusher_wakeup: under flusher->lock, signal cond if the thread
\* sleeps; usleep(5000) }
flush_thread_stop_wakeup ==
    /\ failed = "none"
    /\ log_flusher.stop_pc = "wakeup"
    /\ log_flusher' = [log_flusher EXCEPT !.signalled = log_flusher.sleep,
                                          !.stop_pc = "loop"]
    /\ FlusherFrame

\* ---- initial state: after cmdlog_buf_init ----
NoFlush ==
    [pc |-> "idle", caller |-> NoThread, nflush |-> 0, dual_write_flag |-> FALSE,
     next_fhlsn_flag |-> FALSE, cleanup_process |-> FALSE]

NoFstate == [fd |-> NoFd, fsync_ongoing |-> FALSE, size |-> 0]

IdleWriter ==
    [pc |-> "idle", total_length |-> 0, dual_write |-> FALSE,
     waiter |-> FALSE, lsn |-> LogSN(0, 0)]

IdleSyncer == [pc |-> "idle", fd |-> NoFd, next_fd |-> NoFd, now_flush_lsn |-> LogSN(0, 0)]

InitWith(l) ==
    /\ lim = l
    /\ lk = LockInit(IF "lockers" \in DOMAIN l THEN l.lockers ELSE {})
    /\ ap \in (IF "apply" \in DOMAIN l THEN l.apply ELSE {NoApply})
    /\ log_flusher = IF "stop" \in DOMAIN l THEN FlusherInit ELSE FlusherInLoop
    /\ logbuff = [size |-> CMDLOG_BUFFER_SIZE,
                  head |-> 0, tail |-> 0, last |-> -1,
                  data |-> [i \in 0..(CMDLOG_BUFFER_SIZE - 1) |-> -1],
                  fqsz |-> FqueSize(CMDLOG_BUFFER_SIZE),
                  fque |-> [i \in 0..(FqueSize(CMDLOG_BUFFER_SIZE) - 1) |-> EmptyFreq],
                  fbgn |-> 0, fend |-> 0, dw_end |-> -1]
    /\ log_file = [curr |-> NoFstate, next |-> NoFstate]
    /\ nxt_fsync_lsn = LogSN(1, 0)
    /\ nxt_flush_lsn = LogSN(1, 0)
    /\ nxt_write_lsn = LogSN(1, 0)
    /\ log_flush_lock = NoThread
    /\ fl = NoFlush
    /\ wr = [w \in l.writers |-> IdleWriter]
    /\ bf = [pc |-> "idle", upto_lsn |-> LogSN(0, 0)]
    /\ sy = [s \in l.syncers |-> IdleSyncer]
    /\ disk = << >>
    /\ recs = << >>
    /\ consumed = {}
    /\ calls = [record_write |-> 0, file_prepare |-> 0, file_sync |-> 0, buffer_flush |-> 0]
    /\ failed = "none"

\* ---- do_log_buff_flush, called with log_flush_lock held ----

\* number of bytes placed in the ring so far: the identity of the next byte
NBytes == IF recs = << >> THEN 0 ELSE recs[Len(recs)].first + recs[Len(recs)].total_length

\* do_log_buff_flush returns nflush to its caller, which releases
\* log_flush_lock: the flush thread loops, a writer goes back to its search
\* loop, log_buffer_flush asserts nflush > 0 and compares the LSNs.
FlushReturn(caller, nflush, flush_lsn) ==
    /\ fl' = NoFlush
    /\ IF caller = "bf"
       THEN IF nflush = 0
            THEN /\ failed' = "assert(nflush > 0) in log_buffer_flush"
                 /\ UNCHANGED <<bf, wr, log_flush_lock>>
            ELSE /\ bf' = IF LOGSN_IS_GT(flush_lsn, bf.upto_lsn)
                          THEN [bf EXCEPT !.pc = "idle"]
                          ELSE bf
                 /\ log_flush_lock' = NoThread
                 /\ UNCHANGED <<wr, failed>>
       ELSE /\ wr' = IF caller \in DOMAIN wr
                     THEN [wr EXCEPT ![caller].pc = "retry"]
                     ELSE wr
            /\ log_flush_lock' = NoThread
            /\ UNCHANGED <<bf, failed>>

\* The caller takes log_flush_lock and runs do_log_buff_flush(flush_all) up to
\* its last section: the section under log_write_lock that computes the flush
\* size, the bump of nxt_flush_lsn.filenum, the file write and the update of
\* nxt_flush_lsn.roffset.  With nothing to flush the call returns 0 here.
\* (No other thread reads or writes what the steps after the first section
\* touch, so they are one step with it.)
FlushBegin(caller, flush_all) ==
    LET s    == FlushSelect(logbuff, flush_all)
        lsn1 == IF s.next_fhlsn_flag THEN FlushLsnNextFile(nxt_flush_lsn)
                ELSE nxt_flush_lsn
        f    == [pc |-> "consume", caller |-> caller, nflush |-> s.nflush,
                 dual_write_flag |-> s.dual_write_flag,
                 next_fhlsn_flag |-> s.next_fhlsn_flag,
                 cleanup_process |-> s.cleanup_process]
        r    == FlushFileWrite(log_file, disk, s.lb, f)
    IN  IF ~s.assert_ok
        THEN /\ failed' = "assert(nflush > 0) in do_log_buff_flush"
             /\ UNCHANGED <<logbuff, log_file, disk, nxt_flush_lsn, fl, wr, bf,
                            log_flush_lock>>
        ELSE IF s.nflush = 0
        THEN /\ logbuff' = s.lb
             /\ nxt_flush_lsn' = lsn1
             /\ FlushReturn(caller, 0, lsn1)
             /\ UNCHANGED <<log_file, disk>>
        ELSE IF ~r.ok
        THEN /\ failed' = "assert(nwrite == log_size) in do_log_file_write"
             /\ UNCHANGED <<logbuff, log_file, disk, nxt_flush_lsn, fl, wr, bf,
                            log_flush_lock>>
        ELSE /\ logbuff' = s.lb
             /\ log_file' = r.log_file
             /\ disk' = r.disk
             /\ nxt_flush_lsn' = [lsn1 EXCEPT !.roffset = @ + s.nflush]
             /\ fl' = f
             /\ log_flush_lock' = caller
             /\ UNCHANGED <<wr, bf, failed>>

\* The last section under log_write_lock: update next flush position, clear
\* the flush request; then return.
FlushDone ==
    /\ failed = "none"
    /\ fl.pc = "consume"
    /\ logbuff' = FlushConsume(logbuff, fl.nflush)
    /\ consumed' = consumed \cup {FlushBytes(logbuff, fl.nflush)[i] : i \in 1..fl.nflush}
    /\ FlushReturn(fl.caller, fl.nflush, nxt_flush_lsn)
    /\ log_flusher' = IF fl.caller = "flusher"
                      THEN FlusherAfterFlush(log_flusher, fl.nflush)
                      ELSE log_flusher
    /\ UNCHANGED <<lim, lk, ap, log_file, nxt_write_lsn, nxt_flush_lsn, nxt_fsync_lsn, sy, disk,
                   recs, calls>>

\* ---- log_flush_thread_main: one pass of its loop ----
flush_thread ==
    /\ failed = "none"
    /\ log_flusher.pc = "flush"
    /\ log_flush_lock = NoThread
    /\ FlushBegin("flusher", FALSE)
    /\ log_flusher' = IF FlushSelect(logbuff, FALSE).nflush = 0
                      THEN FlusherAfterFlush(log_flusher, 0)
                      ELSE log_flusher
    /\ UNCHANGED <<lim, lk, ap, nxt_write_lsn, nxt_fsync_lsn, sy, recs, consumed, calls>>

\* ---- do_log_buff_write ----

\* update nxt_write_lsn
WriteLsnAdvance_by_spare_length(lsn, total_length) ==
    [lsn EXCEPT !.roffset = @ + IF total_length > CMDLOG_FLUSH_AUTO_SIZE
                                THEN CMDLOG_FLUSH_AUTO_SIZE ELSE total_length]

WriteLsnAdvance(lsn, total_length) == [lsn EXCEPT !.roffset = @ + total_length]

\* From the search loop to the end, under log_write_lock; me: the locals.
WriteAttempt(w, me) ==
    LET r == FindPosition(logbuff, me.total_length)
    IN  IF r.res = "assert"
        THEN /\ failed' = "assert(last) in do_log_buff_write"
             /\ UNCHANGED <<logbuff, nxt_write_lsn, wr, recs>>
        ELSE IF r.res = "lack"
        THEN /\ logbuff' = r.lb
             /\ wr' = [wr EXCEPT ![w] = [me EXCEPT !.pc = "flush"]]
             /\ UNCHANGED <<nxt_write_lsn, recs, failed>>
        ELSE /\ logbuff' = UpdateFlushRequest(
                               PlaceRecord(r.lb, me.total_length, NBytes),
                               me.total_length, me.dual_write)
             /\ nxt_write_lsn' = WriteLsnAdvance(nxt_write_lsn, me.total_length)
             /\ recs' = Append(recs,
                           [first |-> NBytes, total_length |-> me.total_length,
                            dual_write |-> me.dual_write, lsn |-> nxt_write_lsn,
                            waiter |-> me.waiter, waiter_lsn |-> me.lsn,
                            aborted |-> FALSE,
                            curr_fd |-> log_file.curr.fd, next_fd |-> log_file.next.fd])
             /\ wr' = [wr EXCEPT ![w] = IdleWriter]
             /\ UNCHANGED failed

\* log_record_write(logrec, waiter, dual_write): takes log_write_lock, stamps
\* the waiter and runs the search loop.
record_write(w, total_length, dual_write, waiter) ==
    /\ failed = "none"
    /\ log_file.curr.fd # NoFd
    /\ wr[w].pc = "idle"
    /\ calls.record_write < lim.record_write
    /\ calls' = [calls EXCEPT !.record_write = @ + 1]
    /\ WriteAttempt(w, [pc |-> "idle", total_length |-> total_length,
                        dual_write |-> dual_write, waiter |-> waiter,
                        lsn |-> IF waiter THEN nxt_write_lsn ELSE LogSN(0, 0)])
    /\ UNCHANGED <<lim, lk, ap, log_flusher, log_file, nxt_flush_lsn, nxt_fsync_lsn, log_flush_lock, fl, bf, sy,
                   disk, consumed>>

\* Lack of log buffer space: the writer, log_write_lock released, takes
\* log_flush_lock and calls do_log_buff_flush(false).
write_force_flush(w) ==
    /\ failed = "none"
    /\ wr[w].pc = "flush"
    /\ log_flush_lock = NoThread
    /\ FlushBegin(w, FALSE)
    /\ UNCHANGED <<lim, lk, ap, log_flusher, nxt_write_lsn, nxt_fsync_lsn, sy, recs, consumed, calls>>

\* The writer has log_write_lock again: the next pass of the search loop.
write_retry(w) ==
    /\ failed = "none"
    /\ wr[w].pc = "retry"
    /\ WriteAttempt(w, wr[w])
    /\ UNCHANGED <<lim, lk, ap, log_flusher, log_file, nxt_flush_lsn, nxt_fsync_lsn, log_flush_lock, fl, bf, sy,
                   disk, consumed, calls>>

\* ---- log_buffer_flush ----

\* The LSNs a caller passes: the LSN stamped into the waiter of a record it
\* wrote, or the current nxt_write_lsn.
UptoLsns == {recs[i].waiter_lsn : i \in {j \in 1..Len(recs) : recs[j].waiter}}
                \cup {nxt_write_lsn}

buffer_flush(upto_lsn) ==
    /\ failed = "none"
    /\ log_file.curr.fd # NoFd
    /\ bf.pc = "idle"
    /\ calls.buffer_flush < lim.buffer_flush
    /\ calls' = [calls EXCEPT !.buffer_flush = @ + 1]
    /\ bf' = [pc |-> "loop", upto_lsn |-> upto_lsn]
    /\ UNCHANGED <<lim, lk, ap, log_flusher, logbuff, log_file, nxt_write_lsn, nxt_flush_lsn, nxt_fsync_lsn,
                   log_flush_lock, fl, wr, sy, disk, recs, consumed, failed>>

\* One pass of its do-while loop, up to the call of do_log_buff_flush(true)
buffer_flush_loop ==
    /\ failed = "none"
    /\ bf.pc = "loop"
    /\ log_flush_lock = NoThread
    /\ IF LOGSN_IS_LE(nxt_flush_lsn, bf.upto_lsn)
       THEN FlushBegin("bf", TRUE)
       ELSE /\ bf' = [bf EXCEPT !.pc = "idle"]
            /\ UNCHANGED <<logbuff, log_file, disk, nxt_flush_lsn, fl, wr,
                           log_flush_lock, failed>>
    /\ UNCHANGED <<lim, lk, ap, log_flusher, nxt_write_lsn, nxt_fsync_lsn, sy, recs, consumed, calls>>

\* A call of do_log_buff_flush(true) on its own, under log_flush_lock, by a
\* caller that makes nothing of the value returned (log_buffer_flush without
\* its assertion and its test of the LSNs).
flush_all ==
    /\ failed = "none"
    /\ log_flush_lock = NoThread
    /\ FlushBegin("all", TRUE)
    /\ UNCHANGED <<lim, lk, ap, log_flusher, nxt_write_lsn, nxt_fsync_lsn, sy, recs, consumed, calls>>

\* ---- log_file_sync ----

\* Under log_flush_lock: get nxt_flush_lsn and the descriptors, set fsync_ongoing
file_sync(s) ==
    /\ failed = "none"
    /\ log_file.curr.fd # NoFd
    /\ sy[s].pc = "idle"
    /\ calls.file_sync < lim.file_sync
    /\ log_flush_lock = NoThread
    /\ calls' = [calls EXCEPT !.file_sync = @ + 1]
    /\ sy' = [sy EXCEPT ![s] = [pc |-> "fsync", fd |-> log_file.curr.fd,
                                next_fd |-> log_file.next.fd,
                                now_flush_lsn |-> nxt_flush_lsn]]
    /\ log_file' = [log_file EXCEPT
                      !.curr.fsync_ongoing = TRUE,
                      !.next.fsync_ongoing = IF log_file.next.fd # NoFd THEN TRUE ELSE @]
    /\ UNCHANGED <<lim, lk, ap, log_flusher, logbuff, nxt_write_lsn, nxt_flush_lsn, nxt_fsync_lsn, log_flush_lock,
                   fl, wr, bf, disk, recs, consumed, failed>>

\* do_log_file_sync(fd, false), and of next_fd: fsync of a closed descriptor
\* returns an error and the assertion on it fails.  Then the update of
\* nxt_fsync_lsn, under fsync_lsn_lock.
file_sync_fsync(s) ==
    /\ failed = "none"
    /\ sy[s].pc = "fsync"
    /\ IF /\ disk[sy[s].fd].open
          /\ sy[s].next_fd # NoFd => disk[sy[s].next_fd].open
       THEN /\ nxt_fsync_lsn' = sy[s].now_flush_lsn
            /\ sy' = [sy EXCEPT ![s].pc = "finish"]
            /\ failed' = failed
       ELSE /\ failed' = "assert(ret == 0) in do_log_file_sync"
            /\ UNCHANGED <<nxt_fsync_lsn, sy>>
    /\ UNCHANGED <<lim, lk, ap, log_flusher, logbuff, log_file, nxt_write_lsn, nxt_flush_lsn,
                   log_flush_lock, fl, wr, bf, disk, recs, consumed, calls>>

\* The descriptors and flags after the last section of log_file_sync
SyncFinish(lf, dk, fd, next_fd) ==
    LET lf1 == IF fd = lf.curr.fd
               THEN [lf EXCEPT !.curr.fsync_ongoing = FALSE]
               ELSE lf
        dk1 == IF fd = lf.curr.fd THEN dk ELSE DiskClose(dk, fd)
    IN  IF next_fd = NoFd
        THEN [log_file |-> lf1, disk |-> dk1]
        ELSE IF next_fd = lf1.curr.fd
        THEN [log_file |-> [lf1 EXCEPT !.curr.fsync_ongoing = FALSE], disk |-> dk1]
        ELSE IF next_fd = lf1.next.fd
        THEN [log_file |-> [lf1 EXCEPT !.next.fsync_ongoing = FALSE], disk |-> dk1]
        ELSE [log_file |-> lf1, disk |-> DiskClose(dk1, next_fd)]

\* Under log_flush_lock again: clear fsync_ongoing or close what was retired
file_sync_finish(s) ==
    /\ failed = "none"
    /\ sy[s].pc = "finish"
    /\ log_flush_lock = NoThread
    /\ LET r == SyncFinish(log_file, disk, sy[s].fd, sy[s].next_fd)
       IN  /\ log_file' = r.log_file
           /\ disk' = r.disk
    /\ sy' = [sy EXCEPT ![s] = IdleSyncer]
    /\ UNCHANGED <<lim, lk, ap, log_flusher, logbuff, nxt_write_lsn, nxt_flush_lsn, nxt_fsync_lsn, log_flush_lock,
                   fl, wr, bf, recs, consumed, calls, failed>>

\* ---- cmdlog_file_prepare ----
\* The checkpoint prepares one file at a time (next.fd is absent); a failed
\* open changes nothing and is left out.
file_prepare ==
    /\ failed = "none"
    /\ log_flush_lock = NoThread
    /\ log_file.next.fd = NoFd
    /\ calls.file_prepare < lim.file_prepare
    /\ calls' = [calls EXCEPT !.file_prepare = @ + 1]
    /\ disk' = Append(disk, [open |-> TRUE, bytes |-> << >>, nclose |-> 0])
    /\ log_file' = IF log_file.curr.fd = NoFd
                   THEN [log_file EXCEPT !.curr = [fd |-> Len(disk) + 1,
                                                    fsync_ongoing |-> FALSE, size |-> 0]]
                   ELSE [log_file EXCEPT !.next = [fd |-> Len(disk) + 1,
                                                    fsync_ongoing |-> FALSE, size |-> 0]]
    /\ UNCHANGED <<lim, lk, ap, log_flusher, logbuff, nxt_write_lsn, nxt_flush_lsn, nxt_fsync_lsn, log_flush_lock,
                   fl, wr, bf, sy, recs, consumed, failed>>

\* ---- cmdlog_complete_dual_write ----

\* nxt_write_lsn.filenum += 1; nxt_write_lsn.roffset = 0;
WriteLsnNextFile(lsn) == LogSN(lsn.filenum + 1, 0)

\* (a variant that resets the slot at index only)
ResetDualWrite_first_slot(lb, index, n) ==
    IF lb.fque[index].nflush = 0
    THEN lb
    ELSE [lb EXCEPT !.fque[index].dual_write = FALSE]

\* reset dual_write flag in flush request queue: from index, while the slot
\* holds bytes (n: the slots not visited yet)
RECURSIVE ResetDualWrite(_, _, _)
ResetDualWrite(lb, index, n) ==
    IF n = 0 \/ lb.fque[index].nflush = 0
    THEN lb
    ELSE ResetDualWrite([lb EXCEPT !.fque[index].dual_write = FALSE],
                        FqueNext(lb, index), n - 1)

\* if (prev_fd != -1 && !prev_fsync_ongoing) disk_close(prev_fd)
ClosePrev(dk, prev) ==
    IF prev.fd # NoFd /\ ~prev.fsync_ongoing THEN DiskClose(dk, prev.fd) ELSE dk

complete_dual_write(success) ==
    /\ failed = "none"
    /\ log_flush_lock = NoThread
    /\ IF log_file.next.fd = NoFd
       THEN UNCHANGED <<logbuff, log_file, nxt_write_lsn, disk, failed>>
       ELSE IF success
       THEN LET lb1 == CloseTailSlot(logbuff)
            IN  IF lb1.dw_end # -1
                THEN /\ failed' = "assert(dw_end == -1) in cmdlog_complete_dual_write"
                     /\ UNCHANGED <<logbuff, log_file, nxt_write_lsn, disk>>
                ELSE /\ logbuff' = [lb1 EXCEPT !.dw_end = lb1.fend]
                     /\ nxt_write_lsn' = WriteLsnNextFile(nxt_write_lsn)
                     /\ log_file' = [curr |-> log_file.next, next |-> NoFstate]
                     /\ disk' = ClosePrev(disk, log_file.curr)
                     /\ failed' = failed
       ELSE /\ logbuff' = ResetDualWrite(logbuff, logbuff.fbgn, logbuff.fqsz)
            /\ log_file' = [log_file EXCEPT !.next = NoFstate]
            /\ disk' = ClosePrev(disk, log_file.next)
            /\ UNCHANGED <<nxt_write_lsn, failed>>
    /\ recs' = IF log_file.next.fd # NoFd /\ ~success
               THEN [i \in DOMAIN recs |->
                       [recs[i] EXCEPT !.aborted = recs[i].dual_write]]
               ELSE recs
    /\ UNCHANGED <<lim, lk, ap, log_flusher, nxt_flush_lsn, nxt_fsync_lsn, log_flush_lock, fl, wr, bf, sy,
                   consumed, calls>>

\* ---- the specifications ----
\* Spec: every operation, one writer, one thread in log_file_sync, one rotation
Init ==
    InitWith([writers |-> {"w1"}, syncers |-> {"s1"}, lengths |-> {3, 5},
              dual_write |-> BOOLEAN, waiter |-> {TRUE},
              record_write |-> MaxRecords, file_prepare |-> MaxPrepare,
              file_sync |-> MaxSync, buffer_flush |-> MaxBufFlush])

Next ==
    \/ \E w \in lim.writers, n \in lim.lengths, d \in lim.dual_write, a \in lim.waiter :
           record_write(w, n, d, a)
    \/ \E w \in lim.writers : write_force_flush(w)
    \/ \E w \in lim.writers : write_retry(w)
    \/ flush_thread
    \/ FlushDone
    \/ \E u \in UptoLsns : buffer_flush(u)
    \/ buffer_flush_loop
    \/ \E s \in lim.syncers : file_sync(s)
    \/ \E s \in lim.syncers : file_sync_fsync(s)
    \/ \E s \in lim.syncers : file_sync_finish(s)
    \/ file_prepare
    \/ \E b \in BOOLEAN : complete_dual_write(b)

Spec == Init /\ [][Next]_vars

\* SpecRot: rotations one after the other, writers and the flush thread
InitRot ==
    InitWith([writers |-> {"w1"}, syncers |-> {}, lengths |-> {3, 5},
              dual_write |-> BOOLEAN, waiter |-> BOOLEAN,
              record_write |-> MaxRotRecords, file_prepare |-> MaxRotPrepare,
              file_sync |-> 0, buffer_flush |-> 0])

NextRot ==
    \/ \E w \in lim.writers, n \in lim.lengths, d \in lim.dual_write, a \in lim.waiter :
           record_write(w, n, d, a)
    \/ \E w \in lim.writers : write_force_flush(w)
    \/ \E w \in lim.writers : write_retry(w)
    \/ flush_thread
    \/ FlushDone
    \/ file_prepare
    \/ \E b \in BOOLEAN : complete_dual_write(b)

SpecRot == InitRot /\ [][NextRot]_vars

\* SpecRing: two writers on one file, the ring wraps
InitRing ==
    InitWith([writers |-> {"w1", "w2"}, syncers |-> {}, lengths |-> {2, 3, 5},
              dual_write |-> {FALSE}, waiter |-> {TRUE},
              record_write |-> MaxRingRecords, file_prepare |-> 1,
              file_sync |-> 0, buffer_flush |-> MaxBufFlush])

NextRing ==
    \/ \E w \in lim.writers, n \in lim.lengths, d \in lim.dual_write, a \in lim.waiter :
           record_write(w, n, d, a)
    \/ \E w \in lim.writers : write_force_flush(w)
    \/ \E w \in lim.writers : write_retry(w)
    \/ flush_thread
    \/ FlushDone
    \/ \E u \in UptoLsns : buffer_flush(u)
    \/ buffer_flush_loop
    \/ file_prepare

SpecRing == InitRing /\ [][NextRing]_vars

\* SpecSync: two threads in log_file_sync, rotations, one record
InitSync ==
    InitWith([writers |-> {"w1"}, syncers |-> {"s1", "s2"}, lengths |-> {3, 5},
              dual_write |-> BOOLEAN, waiter |-> {TRUE},
              record_write |-> 1, file_prepare |-> MaxSyncPrepare,
              file_sync |-> MaxSyncCalls, buffer_flush |-> 0])

NextSync ==
    \/ \E w \in lim.writers, n \in lim.lengths, d \in lim.dual_write, a \in lim.waiter :
           record_write(w, n, d, a)
    \/ flush_thread
    \/ FlushDone
    \/ \E s \in lim.syncers : file_sync(s)
    \/ \E s \in lim.syncers : file_sync_fsync(s)
    \/ \E s \in lim.syncers : file_sync_finish(s)
    \/ file_prepare
    \/ \E b \in BOOLEAN : complete_dual_write(b)

SpecSync == InitSync /\ [][NextSync]_vars

\* SpecLive: one writer, the flush thread; every thread is scheduled fairly
InitLive ==
    InitWith([writers |-> {"w1"}, syncers |-> {}, lengths |-> {2, 3, 5},
              dual_write |-> {FALSE}, waiter |-> {TRUE},
              record_write |-> MaxLiveRecords, file_prepare |-> 1,
              file_sync |-> 0, buffer_flush |-> 0])

NextLive ==
    \/ \E w \in lim.writers, n \in lim.lengths, d \in lim.dual_write, a \in lim.waiter :
           record_write(w, n, d, a)
    \/ \E w \in lim.writers : write_force_flush(w)
    \/ \E w \in lim.writers : write_retry(w)
    \/ flush_thread
    \/ FlushDone
    \/ file_prepare

SpecLive ==
    /\ InitLive
    /\ [][NextLive]_vars
    /\ WF_vars(write_force_flush("w1"))
    /\ WF_vars(write_retry("w1"))
    /\ WF_vars(flush_thread)
    /\ WF_vars(FlushDone)

\* SpecLock: the mutex calls of every function, two writers
InitLock ==
    InitWith([writers |-> {}, syncers |-> {}, lengths |-> {}, dual_write |-> {},
              waiter |-> {}, record_write |-> 0, file_prepare |-> 0, file_sync |-> 0,
              buffer_flush |-> 0,
              lockers |-> {"w1", "w2", "flusher", "bf", "s1", "cp", "pr", "gs"}])

NextLock ==
    \/ \E t \in {"w1", "w2"} : LockStep(t)
    \/ LockStep("flusher")
    \/ LockStep("bf")
    \/ LockStep("s1")
    \/ LockStep("cp")
    \/ LockStep("pr")
    \/ LockStep("gs")

SpecLock == InitLock /\ [][NextLock]_vars

\* SpecApply: cmdlog_file_apply on files of complete records and a tail
InitApply ==
    InitWith([writers |-> {}, syncers |-> {}, lengths |-> {}, dual_write |-> {},
              waiter |-> {}, record_write |-> 0, file_prepare |-> 0, file_sync |-> 0,
              buffer_flush |-> 0,
              apply |-> {ApplyStart(b, t) :
                            b \in SeqsUpTo(BodyLengths, MaxApplyRecords), t \in TornTails}])

NextApply ==
    \/ file_apply
    \/ file_apply_record
    \/ file_apply_return
    \/ file_final

SpecApply == InitApply /\ [][NextApply]_vars

\* The flush thread is started and stopped while a writer writes; scheduling is
\* fair to the flush thread, to the caller of flush_thread_stop and to a call
\* of do_log_buff_flush that is under way.
InitStop ==
    InitWith([record_write |-> MaxStopRecords, file_prepare |-> 1,
              file_sync |-> 0, buffer_flush |-> 0, stop |-> MaxStop,
              writers |-> {"w1"}, syncers |-> {}])

FlusherSteps ==
    \/ flush_thread_main
    \/ flush_thread_reqstop
    \/ flush_thread
    \/ flush_thread_sleep
    \/ flush_thread_wakes

StopperSteps ==
    \/ flush_thread_stop_loop
    \/ flush_thread_stop_wakeup

NextStop ==
    \/ flush_thread_start
    \/ flush_thread_start_return
    \/ flush_thread_main
    \/ flush_thread_reqstop
    \/ flush_thread
    \/ flush_thread_sleep
    \/ flush_thread_wakes
    \/ flush_thread_stop
    \/ flush_thread_stop_loop
    \/ flush_thread_stop_wakeup
    \/ FlushDone
    \/ file_prepare
    \/ \E len \in {3, 5} : record_write("w1", len, FALSE, FALSE)
    \/ write_force_flush("w1")
    \/ write_retry("w1")

SpecStop ==
    /\ InitStop
    /\ [][NextStop]_vars
    /\ WF_vars(FlusherSteps)
    /\ WF_vars(StopperSteps)
    /\ WF_vars(FlushDone)

\* Two writers fill the ring and force flushes, the flush thread runs, and a
\* caller repeats do_log_buff_flush(true); scheduling is fair to that caller
\* and to a flush call under way, and a writer may stop anywhere.
InitAll ==
    InitWith([writers |-> {"w1", "w2"}, syncers |-> {}, lengths |-> {2, 3, 5},
              dual_write |-> {FALSE}, waiter |-> {FALSE},
              record_write |-> MaxAllRecords, file_prepare |-> 1,
              file_sync |-> 0, buffer_flush |-> 0])

NextAll ==
    \/ \E w \in lim.writers, n \in lim.lengths, d \in lim.dual_write, a \in lim.waiter :
           record_write(w, n, d, a)
    \/ \E w \in lim.writers : write_force_flush(w)
    \/ \E w \in lim.writers : write_retry(w)
    \/ flush_thread
    \/ flush_all
    \/ FlushDone
    \/ file_prepare

SpecAll ==
    /\ InitAll
    /\ [][NextAll]_vars
    /\ WF_vars(flush_all)
    /\ WF_vars(FlushDone)

\* Two writers write records of every length from CMDLOG_RECORD_MIN_SIZE up,
\* with either dual_write value, while files rotate and the flush thread runs.
InitQueue ==
    InitWith([writers |-> {"w1", "w2"},
              syncers |-> {},
              lengths |-> {CMDLOG_RECORD_MIN_SIZE, CMDLOG_RECORD_MIN_SIZE + 1,
                           CMDLOG_FLUSH_AUTO_SIZE + 1},
              dual_write |-> BOOLEAN, waiter |-> {FALSE},
              record_write |-> MaxQueueRecords, file_prepare |-> MaxQueuePrepare,
              file_sync |-> 0, buffer_flush |-> 0])

NextQueue ==
    \/ \E w \in lim.writers, n \in lim.lengths, d \in lim.dual_write, a \in lim.waiter :
           record_write(w, n, d, a)
    \/ \E w \in lim.writers : write_force_flush(w)
    \/ \E w \in lim.writers : write_retry(w)
    \/ flush_thread
    \/ FlushDone
    \/ file_prepare
    \/ \E b \in BOOLEAN : complete_dual_write(b)

SpecQueue == InitQueue /\ [][NextQueue]_vars

\* ---- the claims ----
\* the identities of the bytes of record r
RecBytes(r) == r.first .. (r.first + r.total_length - 1)

\* how many times byte b was written to descriptor fd
Count(b, fd) == Cardinality({i \in 1..Len(disk[fd].bytes) : disk[fd].bytes[i] = b})

\* (filenum, roffset) compared lexicographically
LsnLe(a, b) == a.filenum < b.filenum \/ (a.filenum = b.filenum /\ a.roffset <= b.roffset)

\* C1: in every reachable state nxt_fsync_lsn <= nxt_flush_lsn <= nxt_write_lsn,
\* compared lexicographically on (filenum, roffset).
C1_LsnOrder ==
    /\ LsnLe(nxt_fsync_lsn, nxt_flush_lsn)
    /\ LsnLe(nxt_flush_lsn, nxt_write_lsn)

\* C1 happens: after a rotation, bytes of the new file were flushed and synced
C1_Witness ==
    /\ nxt_fsync_lsn.filenum = 2
    /\ nxt_fsync_lsn.roffset > 0
    /\ nxt_fsync_lsn = nxt_write_lsn

\* C2: with one file, the bytes written to curr.fd are the bytes of the
\* records in LSN order: none lost, none twice, none out of order; with the
\* queue empty and no flush running, every byte placed in the ring is there.
C2_FlushedInLsnOrder ==
    log_file.curr.fd # NoFd =>
        LET b == disk[log_file.curr.fd].bytes
        IN  /\ \A i \in 1..Len(b) : b[i] = i - 1
            /\ Len(b) <= NBytes
            /\ Len(b) = nxt_flush_lsn.roffset
            /\ (/\ logbuff.fbgn = logbuff.fend
                /\ logbuff.fque[logbuff.fend].nflush = 0
                /\ fl.pc = "idle") => Len(b) = NBytes

\* C2 happens: every record was written, the ring wrapped and all of it is on the file
C2_Witness ==
    /\ log_file.curr.fd # NoFd
    /\ Len(disk[log_file.curr.fd].bytes) > CMDLOG_BUFFER_SIZE
    /\ Len(disk[log_file.curr.fd].bytes) = NBytes
    /\ Len(recs) = MaxRingRecords
    /\ fl.pc = "idle"

\* C3: a record written after cmdlog_complete_dual_write(true) returned is,
\* once its slot is consumed, exactly once in the new file (now curr.fd) and
\* not in an older file.
C3_WrittenOnceToNewFile ==
    \A i \in 1..Len(recs) :
        LET r == recs[i]
        IN  (/\ r.lsn.filenum > 1
             /\ r.curr_fd = log_file.curr.fd
             /\ RecBytes(r) \subseteq consumed)
            => \A b \in RecBytes(r) :
                   /\ Count(b, r.curr_fd) = 1
                   /\ \A fd \in 1..(r.curr_fd - 1) : Count(b, fd) = 0

\* C4: a dual_write record written between cmdlog_file_prepare of the next
\* file and the matching cmdlog_complete_dual_write(true) is, once its slot is
\* consumed, in the old file and in the new file.
C4_DualWrittenToBoth ==
    \A i \in 1..Len(recs) :
        LET r == recs[i]
        IN  (/\ r.dual_write
             /\ r.next_fd # NoFd
             /\ log_file.curr.fd = r.next_fd
             /\ RecBytes(r) \subseteq consumed)
            => \A b \in RecBytes(r) :
                   /\ Count(b, r.curr_fd) >= 1
                   /\ Count(b, r.next_fd) >= 1

\* C5: the assertion nflush > 0 in log_buffer_flush never fails, and a call
\* that has returned left nxt_flush_lsn above its upto_lsn.
C5_BufferFlushAssert ==
    /\ failed # "assert(nflush > 0) in log_buffer_flush"
    /\ (bf.pc = "idle" /\ calls.buffer_flush > 0) => ~LsnLe(nxt_flush_lsn, bf.upto_lsn)

\* C6: under fair scheduling a log_record_write that entered the search loop
\* eventually finds space and returns.
C6_WriteTerminates == (wr["w1"].pc # "idle") ~> (wr["w1"].pc = "idle")

\* C7: the LSN stamped into the waiter is the LSN assigned to the record.
C7_WaiterLsn ==
    \A i \in 1..Len(recs) : recs[i].waiter => recs[i].waiter_lsn = recs[i].lsn

\* C8: nxt_fsync_lsn never decreases.
C8_FsyncLsnMonotonic == [][LsnLe(nxt_fsync_lsn, nxt_fsync_lsn')]_vars

\* C9: while a log_file_sync is between its snapshot of the descriptors and
\* the return of its fsync, the descriptors it snapshot are not closed.
C9_NoCloseDuringFsync ==
    \A s \in DOMAIN sy :
        sy[s].pc = "fsync" =>
            /\ disk[sy[s].fd].open
            /\ sy[s].next_fd # NoFd => disk[sy[s].next_fd].open

\* C10: the assertion dw_end == -1 in cmdlog_complete_dual_write(true) never
\* fails.
C10_DwEndAssert == failed # "assert(dw_end == -1) in cmdlog_complete_dual_write"

\* C11: cmdlog_complete_dual_write(false) with next.fd present leaves no
\* non-empty slot with dual_write set, removes next.fd (closed at once unless
\* its fsync is in progress) and changes nothing else: curr.fd, curr.size,
\* nxt_write_lsn, nxt_flush_lsn, dw_end, head, tail, fbgn, fend, every nflush.
C11_AbortFrame ==
    [][(log_file.next.fd # NoFd /\ complete_dual_write(FALSE)) =>
          /\ \A i \in DOMAIN logbuff.fque :
                 /\ logbuff'.fque[i].nflush = logbuff.fque[i].nflush
                 /\ logbuff'.fque[i].nflush > 0 => ~logbuff'.fque[i].dual_write
          /\ log_file'.next.fd = NoFd
          /\ disk'[log_file.next.fd].open = log_file.next.fsync_ongoing
          /\ log_file'.curr.fd = log_file.curr.fd
          /\ log_file'.curr.size = log_file.curr.size
          /\ nxt_write_lsn' = nxt_write_lsn
          /\ nxt_flush_lsn' = nxt_flush_lsn
          /\ logbuff'.dw_end = logbuff.dw_end
          /\ logbuff'.head = logbuff.head
          /\ logbuff'.tail = logbuff.tail
          /\ logbuff'.fbgn = logbuff.fbgn
          /\ logbuff'.fend = logbuff.fend]_vars

\* C11 happens: a rotation was aborted while two slots of dual_write bytes
\* were queued; the file prepared for it is closed
C11_Witness ==
    /\ failed = "none"
    /\ log_file.next.fd = NoFd
    /\ logbuff.fque[logbuff.fbgn].nflush > 0
    /\ logbuff.fque[FqueNext(logbuff, logbuff.fbgn)].nflush > 0
    /\ \E i \in 1..Len(recs) :
           /\ recs[i].dual_write
           /\ recs[i].next_fd # NoFd
           /\ ~disk[recs[i].next_fd].open
           /\ log_file.curr.fd = recs[i].curr_fd
           /\ RecBytes(recs[i]) \cap consumed = {}

\* the threads that thread t may be waiting for: the owners of the mutexes
\* its next call asks for
WaitsFor(t) ==
    {lk.owner[e.lock] : e \in {x \in NextEdges(t) : x.op = "lock"}} \ {NoThread}

\* the threads reached from the set ts along WaitsFor
RECURSIVE WaitClosure(_)
WaitClosure(ts) ==
    LET more == ts \cup UNION {WaitsFor(t) : t \in ts}
    IN  IF more = ts THEN ts ELSE WaitClosure(more)

\* the mutexes thread t holds
Held(t) == {l \in Locks : lk.owner[l] = t}

\* C12: no thread asks for log_flush_lock while it holds log_write_lock; a
\* thread that holds flush_lsn_lock, fsync_lsn_lock or flusher.lock asks for
\* no mutex; no thread waits, directly or through other waiting threads, for
\* a mutex held by a thread that waits for it.
C12_LockOrder ==
    \A t \in DOMAIN lk.pc :
        /\ \A e \in NextEdges(t) :
               e.op = "lock" =>
                   /\ e.lock = "log_flush_lock" => "log_write_lock" \notin Held(t)
                   /\ Held(t) \cap {"flush_lsn_lock", "fsync_lsn_lock", "flusher.lock"} = {}
        /\ t \notin WaitClosure(WaitsFor(t))
        /\ failed # "unlock of a mutex not owned"

\* C12 happens: a writer in its forced flush holds log_flush_lock and
\* log_write_lock, the other writer waits for log_write_lock after its own
\* forced flush, log_file_sync and cmdlog_file_getsize wait for log_flush_lock
C12_Witness ==
    /\ DOMAIN lk.pc # {}
    /\ lk.owner["log_flush_lock"] = "w1"
    /\ lk.owner["log_write_lock"] = "w1"
    /\ lk.pc["w2"] = "w4"
    /\ lk.pc["s1"] = "s6"
    /\ lk.pc["gs"] = "idle"
    /\ lk.pc["flusher"] = "t4"

\* the end of the last complete record of the file cmdlog_file_apply reads
EndOfRecords == Len(LogFileBytes(ap.bodies, 1))

C14_CorruptAborts ==
    (ap.pc = "done" /\ ap.big_header) =>
        /\ ap.ret = -1
        /\ ~ap.open
        /\ \A i \in 1..Len(ap.redone) :
               ap.redone[i][1] <= MAX_LOG_RECORD_SIZE - LogHdrSize

\* C15: the running state of the flush thread only moves from
\* RUNNING_UNSTARTED to RUNNING_STARTED and from there to RUNNING_STOPPED; and
\* once flush_thread_stop has found the thread started, the thread reaches
\* RUNNING_STOPPED and the call returns, wherever the thread was in its loop.
C15_StopTerminates ==
    /\ [][log_flusher.running' # log_flusher.running =>
             <<log_flusher.running, log_flusher.running'>> \in
                 {<<"RUNNING_UNSTARTED", "RUNNING_STARTED">>,
                  <<"RUNNING_STARTED", "RUNNING_STOPPED">>}]_vars
    /\ (log_flusher.stop_pc # "idle") ~>
           (log_flusher.stop_pc = "idle" /\ log_flusher.running = "RUNNING_STOPPED"
            /\ log_flusher.pc = "returned")

\* the stop request and its wakeup came while the thread was about to sleep:
\* no signal was sent, and the thread now waits with reqstop set
C15_Witness ==
    /\ log_flusher.running = "RUNNING_STARTED"
    /\ log_flusher.stop_pc = "loop"
    /\ log_flusher.reqstop
    /\ log_flusher.pc = "wait"
    /\ log_flusher.sleep
    /\ ~log_flusher.signalled

\* sum of the total lengths (header and body) of the first n records written
RECURSIVE SumLengths(_)
SumLengths(n) == IF n = 0 THEN 0 ELSE SumLengths(n - 1) + recs[n].total_length

\* C16: the step in which a record_write places its record adds exactly the
\* total length of the record to nxt_write_lsn.roffset and keeps the filenum;
\* with two writers and no rotation roffset is the sum of the total lengths
\* of the records written.
C16_WriteLsnAdvance ==
    /\ [][Len(recs') = Len(recs) + 1 =>
             /\ nxt_write_lsn'.roffset =
                    nxt_write_lsn.roffset + recs'[Len(recs')].total_length
             /\ nxt_write_lsn'.filenum = nxt_write_lsn.filenum]_vars
    /\ [](nxt_write_lsn = LogSN(1, SumLengths(Len(recs))))

\* four records of different lengths are in, one of them longer than a flush
\* request slot, and more bytes than the ring holds: flushes came in between
C16_Witness ==
    /\ Len(recs) = 4
    /\ \E i, j \in 1..4 : recs[i].total_length # recs[j].total_length
    /\ \E i \in 1..4 : recs[i].total_length > CMDLOG_FLUSH_AUTO_SIZE
    /\ \A w \in DOMAIN wr : wr[w].pc = "idle"
    /\ nxt_write_lsn.roffset > CMDLOG_BUFFER_SIZE

\* C17: between two sections under log_write_lock the ring is either
\* unwrapped (head <= tail, last = -1) or wrapped (head > tail and
\* tail <= last < size), and the assertions on last in the search loop of
\* do_log_buff_write do not fail.
C17_RingShape ==
    /\ \/ logbuff.head <= logbuff.tail /\ logbuff.last = -1
       \/ /\ logbuff.head > logbuff.tail
          /\ logbuff.tail <= logbuff.last
          /\ logbuff.last < logbuff.size
    /\ failed # "assert(last) in do_log_buff_write"

\* the ring is wrapped while a flush call is between its two sections and a
\* writer is in its search loop
C17_Witness ==
    /\ logbuff.head > logbuff.tail
    /\ logbuff.last # -1
    /\ fl.pc = "consume"
    /\ \E w \in DOMAIN wr : wr[w].pc # "idle"

\* ring positions that hold data not yet consumed, in the order of writing
RingPositions(lb) ==
    IF lb.last # -1
    THEN [j \in 1..(lb.last - lb.head) |-> lb.head + j - 1]
            \o [j \in 1..lb.tail |-> j - 1]
    ELSE [j \in 1..(lb.tail - lb.head) |-> lb.head + j - 1]

\* the flush request slots in use, from fbgn to fend, in order
SlotsInUse(lb) ==
    LET n == ((lb.fend - lb.fbgn + lb.fqsz) % lb.fqsz) + 1
    IN  [k \in 1..n |-> (lb.fbgn + k - 1) % lb.fqsz]

RECURSIVE SlotStart(_, _)
SlotStart(lb, k) ==
    IF k = 1 THEN 0
    ELSE SlotStart(lb, k - 1) + lb.fque[SlotsInUse(lb)[k - 1]].nflush

\* ring positions of the k-th slot in use
SlotPositions(lb, k) ==
    LET st == SlotStart(lb, k)
        n  == lb.fque[SlotsInUse(lb)[k]].nflush
        ps == RingPositions(lb)
    IN  [j \in 1..n |-> IF st + j <= Len(ps) THEN ps[st + j] ELSE -1]

\* the record a byte belongs to
RecordOf(b) == CHOOSE i \in 1..Len(recs) : b \in RecBytes(recs[i])

\* every slot holds at most CMDLOG_FLUSH_AUTO_SIZE bytes
C18_SlotSize ==
    \A i \in DOMAIN logbuff.fque : logbuff.fque[i].nflush <= CMDLOG_FLUSH_AUTO_SIZE

C18_SlotsCoverRing ==
    LET n == Len(SlotsInUse(logbuff))
    IN  SlotStart(logbuff, n) + logbuff.fque[logbuff.fend].nflush
           = Len(RingPositions(logbuff))

C18_SlotContiguous ==
    \A k \in 1..Len(SlotsInUse(logbuff)) :
       LET ps == SlotPositions(logbuff, k)
       IN  /\ \A j \in 1..Len(ps) : ps[j] # -1
           /\ \A j \in 1..(Len(ps) - 1) : ps[j + 1] = ps[j] + 1

\* the records of a slot carried the flag of the slot (given_up: or they
\* carried true, the dual write was given up and the flag is false)
SlotUniform(given_up) ==
    \A k \in 1..Len(SlotsInUse(logbuff)) :
       LET ps   == SlotPositions(logbuff, k)
           slot == logbuff.fque[SlotsInUse(logbuff)[k]]
       IN  \A j \in 1..Len(ps) :
              ps[j] # -1 =>
                 /\ logbuff.data[ps[j]] >= 0
                 /\ LET r == recs[RecordOf(logbuff.data[ps[j]])]
                    IN  \/ r.dual_write = slot.dual_write
                        \/ given_up /\ r.aborted /\ ~slot.dual_write

C18_SlotsNonEmpty ==
    /\ \A k \in 1..(Len(SlotsInUse(logbuff)) - 1) :
          logbuff.fque[SlotsInUse(logbuff)[k]].nflush > 0
    /\ failed # "assert(nflush > 0) in do_log_buff_flush"

C18_FlushInRing ==
    fl.pc = "consume" =>
       logbuff.head + fl.nflush
          <= (IF logbuff.last # -1 THEN logbuff.last ELSE logbuff.tail)

\* C18 as stated: every slot holds at most CMDLOG_FLUSH_AUTO_SIZE bytes, of
\* records that all carried the dual_write value of the slot's flag, in one
\* run of ring positions that does not pass last or size; the slots from fbgn
\* up to fend are not empty and the assertion of the flush never fails.
C18_SlotInvariant ==
    /\ C18_SlotSize
    /\ C18_SlotsCoverRing
    /\ C18_SlotContiguous
    /\ SlotUniform(FALSE)
    /\ C18_SlotsNonEmpty
    /\ C18_FlushInRing

\* C18, amended: the same, but the records of a slot carried the flag of the
\* slot unless complete_dual_write(false) has cleared the flag since they
\* were written: then the slot may hold records that carried true, next to
\* later ones that carried false.
C18_SlotInvariantAmended ==
    /\ C18_SlotSize
    /\ C18_SlotsCoverRing
    /\ C18_SlotContiguous
    /\ SlotUniform(TRUE)
    /\ C18_SlotsNonEmpty
    /\ C18_FlushInRing

\* after complete_dual_write(false) a slot holds a record that carried true
\* and a later one that carried false
C18_Witness ==
    \E k \in 1..Len(SlotsInUse(logbuff)) :
       LET ps == SlotPositions(logbuff, k)
       IN  /\ ~logbuff.fque[SlotsInUse(logbuff)[k]].dual_write
           /\ \E i, j \in 1..Len(ps) :
                 /\ ps[i] # -1 /\ ps[j] # -1
                 /\ logbuff.data[ps[i]] >= 0 /\ logbuff.data[ps[j]] >= 0
                 /\ recs[RecordOf(logbuff.data[ps[i]])].aborted
                 /\ ~recs[RecordOf(logbuff.data[ps[j]])].dual_write

\* a step that is a call of do_log_buff_flush, up to its file write
FlushCall ==
    \/ flush_thread
    \/ \E w \in DOMAIN wr : write_force_flush(w)
    \/ buffer_flush_loop /\ LOGSN_IS_LE(nxt_flush_lsn, bf.upto_lsn)

\* cmdlog_complete_dual_write(true) with a next file moves nxt_write_lsn to
\* the start of the next file
C19_WriteLsnMoves ==
    [][(log_file.next.fd # NoFd /\ complete_dual_write(TRUE)) =>
           nxt_write_lsn' = LogSN(nxt_write_lsn.filenum + 1, 0)]_vars

\* nxt_flush_lsn moves to the next file only in a call of do_log_buff_flush
\* that finds fbgn = dw_end, which puts dw_end back to -1; the file is the one
\* of nxt_write_lsn, and every record written to the file before is consumed
C19_FlushLsnMovesOnce ==
    [][nxt_flush_lsn'.filenum # nxt_flush_lsn.filenum =>
           /\ FlushCall
           /\ logbuff.fbgn = logbuff.dw_end
           /\ logbuff'.dw_end = -1
           /\ nxt_flush_lsn'.filenum = nxt_flush_lsn.filenum + 1
           /\ nxt_flush_lsn'.filenum = nxt_write_lsn.filenum
           /\ nxt_flush_lsn'.roffset = (IF fl'.pc = "consume" THEN fl'.nflush ELSE 0)
           /\ \A i \in 1..Len(recs) :
                 recs[i].lsn.filenum <= nxt_flush_lsn.filenum
                    => RecBytes(recs[i]) \subseteq consumed]_vars

\* the first call of do_log_buff_flush that finds fbgn = dw_end does it, and
\* dw_end leaves -1 only in a completion and returns to -1 only there
C19_FirstCall ==
    /\ [][(FlushCall /\ logbuff.fbgn = logbuff.dw_end) =>
              /\ logbuff'.dw_end = -1
              /\ nxt_flush_lsn'.filenum = nxt_flush_lsn.filenum + 1]_vars
    /\ [][(logbuff.dw_end # -1 /\ logbuff'.dw_end = -1) =>
              nxt_flush_lsn'.filenum = nxt_flush_lsn.filenum + 1]_vars

\* C19: cmdlog_complete_dual_write(true) with a next file sets nxt_write_lsn
\* to (f+1, 0); nxt_flush_lsn then moves to (f+1, 0) once, in the first call
\* of do_log_buff_flush that finds fbgn = dw_end, after every slot queued
\* before the completion is consumed, and dw_end returns to -1 in that call.
C19_RotationLsns ==
    /\ C19_WriteLsnMoves
    /\ C19_FlushLsnMovesOnce
    /\ C19_FirstCall

\* C20: a call of do_log_buff_flush that starts with dw_end # -1 writes the
\* slot it selects to curr.fd if the flag of the slot is set and to no other
\* descriptor (not to a new next.fd); a slot whose flag is not set is consumed
\* without a file write: nxt_flush_lsn.roffset, head and fbgn advance.
C20_CleanupFlush ==
    /\ [][(FlushCall /\ logbuff.dw_end # -1) =>
              IF fl'.pc = "consume"
              THEN /\ fl'.cleanup_process
                   /\ \A fd \in DOMAIN disk :
                         disk'[fd].bytes =
                            IF fd = log_file.curr.fd /\ fl'.dual_write_flag
                            THEN disk[fd].bytes \o FlushBytes(logbuff', fl'.nflush)
                            ELSE disk[fd].bytes
                   /\ nxt_flush_lsn'.roffset =
                         (IF logbuff.fbgn = logbuff.dw_end
                          THEN 0 ELSE nxt_flush_lsn.roffset) + fl'.nflush
              ELSE /\ disk' = disk
                   /\ failed' \notin {"assert(nflush > 0) in do_log_buff_flush",
                                      "assert(nwrite == log_size) in do_log_file_write"}]_vars
    /\ [][(FlushDone /\ fl.cleanup_process) =>
              /\ disk' = disk
              /\ logbuff'.fbgn = FqueNext(logbuff, logbuff.fbgn)
              /\ logbuff'.head = (IF logbuff.head + fl.nflush = logbuff.last
                                  THEN 0 ELSE logbuff.head + fl.nflush)
              /\ \A i \in 1..fl.nflush :
                    logbuff.data[logbuff.head + i - 1] \in consumed']_vars

\* a cleanup call has selected a slot whose flag is not set, with a new next
\* file prepared: nothing was written for it
C20_Witness ==
    /\ fl.pc = "consume"
    /\ fl.cleanup_process
    /\ ~fl.dual_write_flag
    /\ log_file.next.fd # NoFd
    /\ \A fd \in DOMAIN disk :
          \A i \in 1..fl.nflush :
             Count(logbuff.data[logbuff.head + i - 1], fd) = 0

\* no flush request, no byte in the ring
EmptyBuffer ==
    /\ logbuff.fbgn = logbuff.fend
    /\ logbuff.fque[logbuff.fend].nflush = 0
    /\ logbuff.head = logbuff.tail
    /\ logbuff.last = -1

WritersStopped == \A w \in DOMAIN wr : wr[w].pc = "idle"

\* C21: the flush that brings head to last puts last back to -1 and head to
\* 0; once the writers have stopped, repeated calls of do_log_buff_flush(true)
\* reach the empty state (fbgn = fend, the slot at fend empty, head = tail,
\* last = -1) and stay in it, and a call in that state returns 0 and changes
\* nothing.
C21_DrainsToEmpty ==
    /\ [][(FlushDone /\ logbuff.head + fl.nflush = logbuff.last) =>
              (logbuff'.last = -1 /\ logbuff'.head = 0)]_vars
    /\ [][(flush_all /\ EmptyBuffer) =>
              (fl' = NoFlush /\ EmptyBuffer' /\ disk' = disk
               /\ nxt_flush_lsn' = nxt_flush_lsn /\ failed' = "none")]_vars
    /\ (<>[]WritersStopped => <>[]EmptyBuffer)

\* the ring is wrapped and the flush that will bring head to last is under way
C21_Witness ==
    /\ fl.pc = "consume"
    /\ fl.caller = "all"
    /\ logbuff.last # -1
    /\ logbuff.head + fl.nflush = logbuff.last
    /\ logbuff.tail > 0
    /\ WritersStopped

\* sum of nflush over the slots 0..(n-1) of the flush request queue
RECURSIVE SumNflush(_, _)
SumNflush(lb, n) == IF n = 0 THEN 0 ELSE SumNflush(lb, n - 1) + lb.fque[n - 1].nflush

\* C22: between two sections under log_write_lock, also between the
\* selection and the consumption of a slot, the sum of nflush over all slots
\* is the number of bytes in the ring that are not consumed: tail - head when
\* last = -1, (last - head) + tail otherwise.
C22_SlotSum ==
    SumNflush(logbuff, logbuff.fqsz) =
       (IF logbuff.last = -1
        THEN logbuff.tail - logbuff.head
        ELSE (logbuff.last - logbuff.head) + logbuff.tail)

\* a slot is selected and not yet consumed, the ring is wrapped, bytes are
\* queued on both sides of the wrap and a writer waits for space
C22_Witness ==
    /\ fl.pc = "consume"
    /\ logbuff.last # -1
    /\ logbuff.last - logbuff.head > fl.nflush
    /\ logbuff.tail > 0
    /\ \E w \in DOMAIN wr : wr[w].pc # "idle"

\* a step of a thread inside do_log_buff_write
WriterStep ==
    \E w \in DOMAIN wr :
       \/ write_retry(w)
       \/ \E n \in lim.lengths, d \in lim.dual_write, a \in lim.waiter :
              record_write(w, n, d, a)

\* the bytes of some descriptor change
FileWritten == \E fd \in DOMAIN disk : disk'[fd].bytes # disk[fd].bytes

\* C23: do_log_buff_flush(false), the call of the flush thread and of a
\* writer that lacks space, finding fbgn = fend returns 0, writes nothing and
\* leaves the tail slot as it is, even if the slot holds bytes; bytes are
\* written to a file only from a closed slot, and the tail slot is closed only
\* by a writer (the slot is full, the flag differs, the ring wraps), by
\* cmdlog_complete_dual_write(true) or by do_log_buff_flush(true) called by
\* log_buffer_flush.
C23_TailSlotStays ==
    /\ [][((flush_thread \/ \E w \in DOMAIN wr : write_force_flush(w))
            /\ logbuff.fbgn = logbuff.fend) =>
              /\ fl' = NoFlush
              /\ disk' = disk
              /\ logbuff'.fque = logbuff.fque
              /\ logbuff'.fend = logbuff.fend
              /\ logbuff'.head = logbuff.head
              /\ nxt_flush_lsn'.roffset =
                    (IF logbuff.fbgn = logbuff.dw_end THEN 0 ELSE nxt_flush_lsn.roffset)]_vars
    /\ [][FileWritten => (logbuff.fbgn # logbuff.fend \/ buffer_flush_loop)]_vars
    /\ [][logbuff'.fend # logbuff.fend =>
              \/ buffer_flush_loop /\ logbuff.fbgn = logbuff.fend
              \/ complete_dual_write(TRUE) /\ log_file.next.fd # NoFd
              \/ /\ WriterStep
                 /\ \/ logbuff'.last # -1 /\ logbuff.last = -1
                    \/ logbuff'.fque[logbuff.fend].nflush = CMDLOG_FLUSH_AUTO_SIZE
                    \/ /\ Len(recs') = Len(recs) + 1
                       /\ recs'[Len(recs')].dual_write
                             # logbuff.fque[logbuff.fend].dual_write]_vars

\* a writer that lacked space has called do_log_buff_flush(false), which
\* returned 0: the bytes of the tail slot are queued and in no file
C23_Witness ==
    /\ \E w \in DOMAIN wr : wr[w].pc = "retry"
    /\ logbuff.fbgn = logbuff.fend
    /\ logbuff.fque[logbuff.fend].nflush > 0
    /\ \A fd \in DOMAIN disk :
          \A i \in 1..logbuff.fque[logbuff.fend].nflush :
             Count(logbuff.data[logbuff.head + i - 1], fd) = 0

\* the slots fend passes in a step, the one it lands on included
SlotsPassed ==
    {(logbuff.fend + k) % logbuff.fqsz :
        k \in 1..((logbuff'.fend - logbuff.fend + logbuff.fqsz) % logbuff.fqsz)}

C25_DescriptorLifetime ==
    /\ \A fd \in DOMAIN disk : disk[fd].nclose <= 1
    /\ failed \notin {"assert(ret == 0) in do_log_file_sync",
                       "assert(nwrite == log_size) in do_log_file_write"}
    /\ ap.nclose <= 1
    /\ ~ap.fsync_closed

====
